---- MODULE Spec2Model ----
(***************************************************************************)
(* beamer: parsing of `xrandr --query` text into Output/Mode records and   *)
(* synthesis of the xrandr argument lists for the layout commands          *)
(* (src/beamer.py).                                                        *)
(*                                                                         *)
(* Text is modelled as TLA+ strings, scanned character by character.       *)
(* Optional values (Python None / a value) are <<>> / <<v>>.               *)
(***************************************************************************)
EXTENDS Integers, Sequences, FiniteSets, TLC

\* ------------------------------------------------------------------------
\* Optional values
\* ------------------------------------------------------------------------
None == <<>>

Some(v) == <<v>>

\* ------------------------------------------------------------------------
\* Characters and integers <-> text
\* ------------------------------------------------------------------------
Char(s, i) == SubSeq(s, i, i)

Digits == "0123456789"

DigitChars == {"0", "1", "2", "3", "4", "5", "6", "7", "8", "9"}

IsDigit(c) == c \in DigitChars

\* \s under re.ASCII
IsSpace(c) == c \in {" ", "\t", "\n", "\r", "\f"}

DigitVal(c) ==
    CASE c = "0" -> 0 [] c = "1" -> 1 [] c = "2" -> 2 [] c = "3" -> 3
      [] c = "4" -> 4 [] c = "5" -> 5 [] c = "6" -> 6 [] c = "7" -> 7
      [] c = "8" -> 8 [] c = "9" -> 9

StartsWith(s, i, p) == /\ i >= 1
                       /\ i + Len(p) - 1 <= Len(s)
                       /\ SubSeq(s, i, i + Len(p) - 1) = p

\* first index j >= i such that s[i..j-1] are all digits and s[j] is not
RECURSIVE DigitsEnd(_, _)
DigitsEnd(s, i) ==
    IF i <= Len(s) /\ IsDigit(Char(s, i)) THEN DigitsEnd(s, i + 1) ELSE i

RECURSIVE SpaceEnd(_, _)
SpaceEnd(s, i) ==
    IF i <= Len(s) /\ IsSpace(Char(s, i)) THEN SpaceEnd(s, i + 1) ELSE i

RECURSIVE NonSpaceEnd(_, _)
NonSpaceEnd(s, i) ==
    IF i <= Len(s) /\ ~IsSpace(Char(s, i)) THEN NonSpaceEnd(s, i + 1) ELSE i

\* index of the first occurrence of the one-character string c at or after
\* i, or Len(s) + 1 when there is none
RECURSIVE FindChar(_, _, _)
FindChar(s, i, c) ==
    IF i <= Len(s) /\ Char(s, i) # c THEN FindChar(s, i + 1, c) ELSE i

\* value of a non-empty string of decimal digits
RECURSIVE DigitsToInt(_)
DigitsToInt(s) ==
    IF Len(s) = 0 THEN 0
    ELSE 10 * DigitsToInt(SubSeq(s, 1, Len(s) - 1)) + DigitVal(Char(s, Len(s)))

\* text without leading and trailing whitespace (str.strip)
RECURSIVE Strip(_)
Strip(s) ==
    IF Len(s) = 0 THEN s
    ELSE IF IsSpace(Char(s, 1)) THEN Strip(Tail(s))
    ELSE IF IsSpace(Char(s, Len(s))) THEN Strip(SubSeq(s, 1, Len(s) - 1))
    ELSE s

\* int(s) succeeds: optional surrounding whitespace, optional sign, digits
IntParses(s) ==
    LET t == Strip(s)
        u == IF StartsWith(t, 1, "+") \/ StartsWith(t, 1, "-") THEN Tail(t) ELSE t
    IN  Len(u) > 0 /\ DigitsEnd(u, 1) = Len(u) + 1

\* int(s), for s with IntParses(s)
ParseInt(s) ==
    LET t == Strip(s) IN
    IF StartsWith(t, 1, "-") THEN 0 - DigitsToInt(Tail(t))
    ELSE IF StartsWith(t, 1, "+") THEN DigitsToInt(Tail(t))
    ELSE DigitsToInt(t)

\* str(n) / f"{n}" for an integer n
RECURSIVE IntToStr(_)
IntToStr(n) ==
    IF n < 0 THEN "-" \o IntToStr(0 - n)
    ELSE IF n < 10 THEN Char(Digits, n + 1)
    ELSE IntToStr(n \div 10) \o Char(Digits, (n % 10) + 1)

\* float(s) for s matching \d+\.\d+ : integer part and the fractional digits
\* without trailing zeros, so that "60.0" and "60.00" are the same number
RECURSIVE StripTrailingZeros(_)
StripTrailingZeros(s) ==
    IF Len(s) > 0 /\ Char(s, Len(s)) = "0"
    THEN StripTrailingZeros(SubSeq(s, 1, Len(s) - 1))
    ELSE s

ParseFloat(s) ==
    LET dot == FindChar(s, 1, ".")
    IN  [int  |-> DigitsToInt(SubSeq(s, 1, dot - 1)),
         frac |-> StripTrailingZeros(SubSeq(s, dot + 1, Len(s)))]

\* ------------------------------------------------------------------------
\* Line scanner: the two regular expressions and _sscanf
\*
\* A match in progress is a cursor [ok, pos, groups]: whether the pattern
\* has matched so far, the index of the next character, and the text of the
\* named groups (None for a group that has not taken part).  re.match
\* anchors the pattern at the start of the line only.
\* ------------------------------------------------------------------------
Start(keys) == [ok |-> TRUE, pos |-> 1, groups |-> [k \in keys |-> None]]

Fail(st) == [st EXCEPT !.ok = FALSE]

\* the literal text
Lit(s, st, text) ==
    IF st.ok /\ StartsWith(s, st.pos, text)
    THEN [st EXCEPT !.pos = @ + Len(text)]
    ELSE Fail(st)

\* a non-empty run up to end, not captured
Skipped(st, end) ==
    IF st.ok /\ end > st.pos THEN [st EXCEPT !.pos = end] ELSE Fail(st)

\* a non-empty run up to end, captured as group key
Captured(s, st, key, end) ==
    IF st.ok /\ end > st.pos
    THEN [st EXCEPT !.pos = end, !.groups[key] = Some(SubSeq(s, st.pos, end - 1))]
    ELSE Fail(st)

\* \s+
Spaces1(s, st) == Skipped(st, SpaceEnd(s, st.pos))

\* (?P<key>\d+)
Digits1(s, st, key) == Captured(s, st, key, DigitsEnd(s, st.pos))

\* (?P<key>\S+)
NonSpace1(s, st, key) == Captured(s, st, key, NonSpaceEnd(s, st.pos))

\* end of [+-]\d+ at i, or i when it does not match
SignedEnd(s, i) ==
    IF (StartsWith(s, i, "+") \/ StartsWith(s, i, "-")) /\ DigitsEnd(s, i + 1) > i + 1
    THEN DigitsEnd(s, i + 1)
    ELSE i

\* (?P<key>[+-]\d+)
Signed1(s, st, key) == Captured(s, st, key, SignedEnd(s, st.pos))

\* end of \d+\.\d+ at i after its integer part ends at dot, or i
FloatEndAt(s, i, dot) ==
    IF dot > i /\ StartsWith(s, dot, ".") /\ DigitsEnd(s, dot + 1) > dot + 1
    THEN DigitsEnd(s, dot + 1)
    ELSE i

\* (?P<key>\d+\.\d+)
Float1(s, st, key) ==
    Captured(s, st, key, FloatEndAt(s, st.pos, DigitsEnd(s, st.pos)))

\* end of (?:dis)?connected at i, or i
ConnectedEnd(s, i) ==
    IF StartsWith(s, i, "disconnected") THEN i + Len("disconnected")
    ELSE IF StartsWith(s, i, "connected") THEN i + Len("connected")
    ELSE i

\* (?P<key>(?:dis)?connected)
Connected1(s, st, key) == Captured(s, st, key, ConnectedEnd(s, st.pos))

\* (?P<key>text)?
OptLit(s, st, key, text) ==
    IF st.ok /\ StartsWith(s, st.pos, text)
    THEN [st EXCEPT !.pos = @ + Len(text), !.groups[key] = Some(text)]
    ELSE st

\* (?P<key>.*?) before the literal character c: the text up to the first c
\* (the rest of the pattern can always match after the first one)
LazyUntil(s, st, key, c) ==
    IF st.ok /\ FindChar(s, st.pos, c) <= Len(s)
    THEN [st EXCEPT !.pos = FindChar(s, st.pos, c),
                    !.groups[key] = Some(SubSeq(s, st.pos, FindChar(s, st.pos, c) - 1))]
    ELSE Fail(st)

\* (?P<key>.*) : the rest of the line
RestOfLine(s, st, key) ==
    IF st.ok
    THEN [st EXCEPT !.pos = Len(s) + 1,
                    !.groups[key] = Some(SubSeq(s, st.pos, Len(s)))]
    ELSE st

\* an optional group: the cursor after it when it matched, else the cursor
\* before it
OrElse(after, before) == IF after.ok THEN after ELSE before

\* match.groupdict(), or None when the pattern did not match
Finish(st) == IF st.ok THEN Some(st.groups) ELSE None

\* Mode._xrandr_regex:
\*   \s+(?P<width>\d+)x(?P<height>\d+)\s+(?P<frequency>\d+\.\d+)
\*   (?P<active>\*)?(?P<preferred>\+)?
ModeRegexMatch(s) ==
    LET keys == {"width", "height", "frequency", "active", "preferred"}
        a == Spaces1(s, Start(keys))
        b == Digits1(s, a, "width")
        c == Lit(s, b, "x")
        d == Digits1(s, c, "height")
        e == Spaces1(s, d)
        f == Float1(s, e, "frequency")
        g == OptLit(s, f, "active", "*")
        h == OptLit(s, g, "preferred", "+")
    IN  Finish(h)

Mode_xrandr_casts ==
    [width |-> "int", height |-> "int", frequency |-> "float",
     active |-> "bool", preferred |-> "bool"]

\* (?:\ (?P<width>\d+)x(?P<height>\d+)(?P<xoffset>[+-]\d+)(?P<yoffset>[+-]\d+))?
\* The group and the text after it start differently (a digit, an opening
\* parenthesis), so it takes part exactly when its text is there.
OptGeometry(s, st) ==
    LET a == Lit(s, st, " ")
        b == Digits1(s, a, "width")
        c == Lit(s, b, "x")
        d == Digits1(s, c, "height")
        e == Signed1(s, d, "xoffset")
        f == Signed1(s, e, "yoffset")
    IN  OrElse(f, st)

\* (?:\ (?P<physical_size>.*))?
OptPhysicalSize(s, st) ==
    OrElse(RestOfLine(s, Lit(s, st, " "), "physical_size"), st)

\* Output._xrandr_regex:
\*   (?P<name>\S+)\ (?P<connected>(?:dis)?connected)(?P<primary>\ primary)?
\*   (?:\ (?P<width>\d+)x(?P<height>\d+)(?P<xoffset>[+-]\d+)(?P<yoffset>[+-]\d+))?
\*   \ \((?P<info>.*?)\)(?:\ (?P<physical_size>.*))?
OutputRegexMatch(s) ==
    LET keys == {"name", "connected", "primary", "width", "height",
                 "xoffset", "yoffset", "info", "physical_size"}
        a == NonSpace1(s, Start(keys), "name")
        b == Lit(s, a, " ")
        c == Connected1(s, b, "connected")
        d == OptLit(s, c, "primary", " primary")
        e == OptGeometry(s, d)
        f == Lit(s, e, " (")
        g == LazyUntil(s, f, "info", ")")
        h == Lit(s, g, ")")
        i == OptPhysicalSize(s, h)
    IN  Finish(i)

Output_xrandr_casts ==
    [name |-> "str", connected |-> "connected", primary |-> "bool",
     width |-> "int", height |-> "int", xoffset |-> "int", yoffset |-> "int",
     info |-> "str", physical_size |-> "str"]

\* casts[key](value) raises TypeError: int(None), float(None)
CastRaisesTypeError(cast, v) == cast \in {"int", "float"} /\ v = None

\* casts[key](value)
ApplyCast(cast, v) ==
    CASE cast = "int"       -> ParseInt(v[1])
      [] cast = "float"     -> ParseFloat(v[1])
      [] cast = "bool"      -> (v # None /\ v[1] # "")
      [] cast = "str"       -> (IF v = None THEN "None" ELSE v[1])
      [] cast = "connected" -> (v = Some("connected"))

\* the casts applied to a groupdict, leaving out every group whose cast
\* raises TypeError
CastGroups(match, casts) ==
    IF match = None THEN None
    ELSE Some([k \in {k \in DOMAIN match[1] :
                         ~CastRaisesTypeError(casts[k], match[1][k])}
                  |-> ApplyCast(casts[k], match[1][k])])

\* _sscanf with the Output pattern and casts
sscanfOutput(string) == CastGroups(OutputRegexMatch(string), Output_xrandr_casts)

\* _sscanf with the Mode pattern and casts
sscanfMode(string) == CastGroups(ModeRegexMatch(string), Mode_xrandr_casts)

\* truth value of an Optional[dict]: None and {} are false
Truthy(d) == d # None /\ DOMAIN d[1] # {}

\* ------------------------------------------------------------------------
\* Output/Mode model
\* ------------------------------------------------------------------------
\* Mode.model_validate(mode)
Mode(d) ==
    [width |-> d.width, height |-> d.height, frequency |-> d.frequency,
     active |-> d.active, preferred |-> d.preferred]

\* Output(**d, modes=modes); the geometry fields default to None
Output(d, modes) ==
    LET Opt(f) == IF f \in DOMAIN d THEN Some(d[f]) ELSE None
    IN  [name |-> d.name, connected |-> d.connected, primary |-> d.primary,
         width |-> Opt("width"), height |-> Opt("height"),
         xoffset |-> Opt("xoffset"), yoffset |-> Opt("yoffset"),
         info |-> d.info, physical_size |-> d.physical_size,
         modes |-> modes]

\* ------------------------------------------------------------------------
\* Query parser
\* ------------------------------------------------------------------------
\* str.split("\n")
RECURSIVE SplitLines(_)
SplitLines(s) ==
    LET j == FindChar(s, 1, "\n") IN
    IF j = Len(s) + 1 THEN <<s>>
    ELSE <<SubSeq(s, 1, j - 1)>> \o SplitLines(SubSeq(s, j + 1, Len(s)))

\* the while loop of scan_xrandr_outputs: pop lines until one is a header;
\* lines.pop(0) on the empty list raises IndexError
RECURSIVE SkipToHeader(_)
SkipToHeader(lines) ==
    IF lines = <<>> THEN [raised |-> "IndexError", current |-> None, lines |-> <<>>]
    ELSE IF sscanfOutput(Head(lines)) = None THEN SkipToHeader(Tail(lines))
    ELSE [raised |-> "", current |-> sscanfOutput(Head(lines)), lines |-> Tail(lines)]

\* mutant: the mode list is not reset when a new output begins
ScanLineKeepModes(line, new_output, mode, current_output, modes) ==
    IF Truthy(new_output)
    THEN [yield |-> <<Output(current_output, modes)>>,
          current_output |-> new_output[1], modes |-> modes]
    ELSE IF Truthy(mode)
    THEN [yield |-> <<>>, current_output |-> current_output,
          modes |-> Append(modes, Mode(mode[1]))]
    ELSE [yield |-> <<>>, current_output |-> current_output, modes |-> modes]

\* one pass of the for loop: what it yields, and current_output and modes
\* after it
ScanLine(line, new_output, mode, current_output, modes) ==
    IF Truthy(new_output)
    THEN [yield |-> <<Output(current_output, modes)>>,
          current_output |-> new_output[1], modes |-> <<>>]
    ELSE IF Truthy(mode)
    THEN [yield |-> <<>>, current_output |-> current_output,
          modes |-> Append(modes, Mode(mode[1]))]
    ELSE [yield |-> <<>>, current_output |-> current_output, modes |-> modes]

\* the for loop over filter(None, lines) and the final yield
RECURSIVE ScanLoop(_, _, _)
RECURSIVE ScanRest(_, _)
ScanLoop(lines, current_output, modes) ==
    IF lines = <<>> THEN <<Output(current_output, modes)>>
    ELSE IF Head(lines) = "" THEN ScanLoop(Tail(lines), current_output, modes)
    ELSE ScanRest(Tail(lines),
                  ScanLine(Head(lines), sscanfOutput(Head(lines)),
                           sscanfMode(Head(lines)), current_output, modes))

\* the rest of the loop after one pass
ScanRest(lines, pass) ==
    pass.yield \o ScanLoop(lines, pass.current_output, pass.modes)

\* scan_xrandr_outputs once the first header is found (or not)
ScanFrom(first) ==
    IF first.raised # "" THEN [raised |-> first.raised, outputs |-> <<>>]
    ELSE [raised |-> "",
          outputs |-> ScanLoop(first.lines, first.current[1], <<>>)]

\* scan_xrandr_outputs on the text the query returned: the exception raised
\* ("" for none) and the Outputs yielded
scan_xrandr_outputs(text) == ScanFrom(SkipToHeader(Tail(SplitLines(text))))

\* connected_outputs: the outputs with connected = True, in order
Connected(outputs) == SelectSeq(outputs, LAMBDA o : o.connected)

\* ------------------------------------------------------------------------
\* Layout synthesizer.  Every beamer_*_args returns a record:
\*   raised  - the exception that escapes ("" for none)
\*   cmd     - the return value: None or Some(argument tuple)
\*   printed - the messages printed, in order
\*   ran     - the run_cmd invocations made, in order
\*   batch   - None, or Some(parsed batch) when the query text was parsed
\* ------------------------------------------------------------------------
QueryArgs == <<"xrandr", "--query">>

\* chain.from_iterable
RECURSIVE Chain(_)
Chain(seqs) == IF seqs = <<>> THEN <<>> ELSE Head(seqs) \o Chain(Tail(seqs))

\* the outcome of tuple(connected_outputs()) raising before any output
QueryRaised(co) ==
    [raised |-> co.raised, cmd |-> None, printed |-> <<>>,
     ran |-> <<QueryArgs>>, batch |-> None]

\* mutant: the height compared before the width
TupleLessHeightFirst(a, b) == a[2] < b[2] \/ (a[2] = b[2] /\ a[1] < b[1])

\* comparison of (width, height) tuples as Python compares tuples
TupleLess(a, b) == a[1] < b[1] \/ (a[1] = b[1] /\ a[2] < b[2])

\* max(resolutions) for a non-empty set of tuples
TupleMax(S) == CHOOSE r \in S : \A q \in S : q = r \/ TupleLess(q, r)

\* beamer_clone_args on the parsed query
CloneArgs(scan) ==
    LET outputs == Connected(scan.outputs)
        said == <<"Cloning to " \o IntToStr(Len(outputs)) \o " outputs.">>
        Res(out) == {<<md.width, md.height>> : md \in {out.modes[i] : i \in DOMAIN out.modes}}
        resolutions == {r \in Res(outputs[1]) : \A k \in DOMAIN outputs : r \in Res(outputs[k])}
        width == TupleMax(resolutions)[1]
        height == TupleMax(resolutions)[2]
        mode == IntToStr(width) \o "x" \o IntToStr(height)
    IN  IF scan.raised # "" THEN QueryRaised(scan)
        ELSE IF Len(outputs) = 0
        \* set.intersection() without an argument
        THEN [raised |-> "TypeError", cmd |-> None, printed |-> said,
              ran |-> <<QueryArgs>>, batch |-> Some(scan.outputs)]
        ELSE IF resolutions = {}
        THEN [raised |-> "", cmd |-> None,
              printed |-> Append(said, "no matching resolution found"),
              ran |-> <<QueryArgs>>, batch |-> Some(scan.outputs)]
        ELSE [raised |-> "",
              cmd |-> Some(<<"xrandr", "--output", outputs[1].name, "--mode", mode>>
                           \o Chain([k \in 1..(Len(outputs) - 1) |->
                                        <<"--output", outputs[k + 1].name,
                                          "--mode", mode,
                                          "--same-as", outputs[1].name>>])),
              printed |-> said,
              ran |-> <<QueryArgs>>, batch |-> Some(scan.outputs)]

beamer_clone_args(text) == CloneArgs(scan_xrandr_outputs(text))

\* mutant: the flags of left and right exchanged
side_parameters_swapped ==
    [left |-> "--right-of", right |-> "--left-of",
     above |-> "--above", below |-> "--below"]

side_parameters ==
    [left |-> "--left-of", right |-> "--right-of",
     above |-> "--above", below |-> "--below"]

\* beamer_side_args on the parsed query
SideArgs(side, scan) ==
    LET outputs == Connected(scan.outputs)
    IN  IF scan.raised # "" THEN QueryRaised(scan)
        ELSE IF Len(outputs) # 2
        THEN [raised |-> "", cmd |-> None,
              printed |-> <<"Which outputs should I use? Found "
                            \o IntToStr(Len(outputs))>>,
              ran |-> <<QueryArgs>>, batch |-> Some(scan.outputs)]
        ELSE [raised |-> "",
              cmd |-> Some(<<"xrandr", "--output", outputs[1].name, "--auto",
                             "--output", outputs[2].name, "--auto",
                             side_parameters[side], outputs[1].name>>),
              printed |-> <<>>,
              ran |-> <<QueryArgs>>, batch |-> Some(scan.outputs)]

beamer_side_args(side, text) == SideArgs(side, scan_xrandr_outputs(text))

\* beamer_single_output_args on the parsed query
SingleOutputArgs(index, scan) ==
    LET connected == Connected(scan.outputs)
        \* activate, *outputs = connected_outputs()
        activate == Head(connected)
        outputs == Tail(connected)
    IN  IF scan.raised # "" THEN QueryRaised(scan)
        ELSE IF connected = <<>>
        \* unpacking raises ValueError, which is caught
        THEN [raised |-> "", cmd |-> None,
              printed |-> <<"No output with index " \o IntToStr(index)
                            \o " connected">>,
              ran |-> <<QueryArgs>>, batch |-> Some(scan.outputs)]
        ELSE [raised |-> "",
              cmd |-> Some(<<"xrandr", "--output", activate.name, "--auto">>
                           \o Chain([k \in DOMAIN outputs |->
                                        <<"--output", outputs[k].name, "--off">>])),
              printed |-> <<>>,
              ran |-> <<QueryArgs>>, batch |-> Some(scan.outputs)]

beamer_single_output_args(index, text) ==
    SingleOutputArgs(index, scan_xrandr_outputs(text))

\* seq[i] for a Python index i (negative indices count from the end):
\* None when it raises IndexError
PyIndex(seq, i) ==
    IF 0 <= i /\ i < Len(seq) THEN Some(seq[i + 1])
    ELSE IF i < 0 /\ 0 - Len(seq) <= i THEN Some(seq[Len(seq) + i + 1])
    ELSE None

\* outputs_by_name[name]: the last output of that name; None for KeyError
ByName(outputs, name) ==
    LET at == {k \in DOMAIN outputs : outputs[k].name = name}
    IN  IF at = {} THEN None
        ELSE Some(outputs[CHOOSE k \in at : \A j \in at : j <= k])

\* one pass of the loop over row: the output an entry selects with its
\* primary flag set from the marker, or the error message
RowEntry(entry0, outputs) ==
    LET primary == Len(entry0) > 0 /\ Char(entry0, Len(entry0)) = "!"
        entry == IF primary THEN SubSeq(entry0, 1, Len(entry0) - 1) ELSE entry0
        byIndex == PyIndex(outputs, ParseInt(entry) - 1)
        byName == ByName(outputs, entry)
    IN  IF IntParses(entry)
        THEN IF byIndex = None
             THEN [found |-> FALSE,
                   error |-> "Could not find output number "
                             \o IntToStr(ParseInt(entry) - 1)]
             ELSE [found |-> TRUE,
                   output |-> [byIndex[1] EXCEPT !.primary = primary]]
        ELSE IF byName = None
             THEN [found |-> FALSE,
                   error |-> "Could not find output '" \o entry \o "'"]
             ELSE [found |-> TRUE,
                   output |-> [byName[1] EXCEPT !.primary = primary]]

\* mutant: every output paired with the first one
ZipAnchor(row_outputs) ==
    [k \in 1..(Len(row_outputs) - 1) |->
        [left |-> row_outputs[1], out |-> row_outputs[k + 1]]]

\* zip(row_outputs, row_outputs[1:]): each output with its left neighbour
ZipNeighbours(row_outputs) ==
    [k \in 1..(Len(row_outputs) - 1) |->
        [left |-> row_outputs[k], out |-> row_outputs[k + 1]]]

\* beamer_row_args on the parsed query, for a non-empty row
RowArgs(row, scan) ==
    LET outputs == Connected(scan.outputs)
        entries == [k \in DOMAIN row |-> RowEntry(row[k], outputs)]
        bad == {k \in DOMAIN row : ~entries[k].found}
        firstBad == CHOOSE k \in bad : \A j \in bad : k <= j
        row_outputs == [k \in DOMAIN row |-> entries[k].output]
        pairs == ZipNeighbours(row_outputs)
        row_output_names == {row_outputs[k].name : k \in DOMAIN row_outputs}
        unused == SelectSeq(outputs, LAMBDA o : o.name \notin row_output_names)
    IN  IF scan.raised # "" THEN QueryRaised(scan)
        ELSE IF bad # {}
        THEN [raised |-> "", cmd |-> None,
              printed |-> <<entries[firstBad].error>>,
              ran |-> <<QueryArgs>>, batch |-> Some(scan.outputs)]
        ELSE [raised |-> "",
              cmd |-> Some(<<"xrandr", "--output", row_outputs[1].name, "--auto">>
                           \o Chain([k \in DOMAIN pairs |->
                                        <<"--output", pairs[k].out.name, "--auto",
                                          "--right-of", pairs[k].left.name>>
                                        \o (IF pairs[k].out.primary
                                            THEN <<"--primary">> ELSE <<>>)])
                           \o Chain([k \in DOMAIN unused |->
                                        <<"--output", unused[k].name, "--off">>])),
              printed |-> <<>>,
              ran |-> <<QueryArgs>>, batch |-> Some(scan.outputs)]

\* an empty row returns before the query is made
beamer_row_args(row, text) ==
    IF row = <<>>
    THEN [raised |-> "", cmd |-> None, printed |-> <<"No outputs specified">>,
          ran |-> <<>>, batch |-> None]
    ELSE RowArgs(row, scan_xrandr_outputs(text))

\* s.rjust(n)
RECURSIVE RJust(_, _)
RJust(s, n) == IF Len(s) >= n THEN s ELSE RJust(" " \o s, n)

\* sep.join(strings)
RECURSIVE Join(_, _)
Join(strings, sep) ==
    IF strings = <<>> THEN ""
    ELSE IF Len(strings) = 1 THEN strings[1]
    ELSE strings[1] \o sep \o Join(Tail(strings), sep)

\* list_to_columns(strings, indent="  ") on a terminal wide enough for one
\* line; None when max() of the empty list raises ValueError
list_to_columns(strings) ==
    LET max_len == CHOOSE n \in {Len(strings[k]) : k \in DOMAIN strings} :
                       \A k \in DOMAIN strings : Len(strings[k]) <= n
    IN  IF strings = <<>> THEN None
        ELSE Some("  " \o Join([k \in DOMAIN strings |-> RJust(strings[k], max_len)], " "))

\* the loop of beamer_info over the connected outputs from position index on
RECURSIVE InfoLoop(_, _)
InfoLoop(outputs, index) ==
    IF index > Len(outputs) THEN [raised |-> "", printed |-> <<>>]
    ELSE LET output == outputs[index]
             modes == [k \in DOMAIN output.modes |->
                          (IF output.modes[k].active THEN "*" ELSE "")
                          \o IntToStr(output.modes[k].width) \o "x"
                          \o IntToStr(output.modes[k].height)]
             head == IntToStr(index) \o ": " \o output.name
             columns == list_to_columns(modes)
             rest == InfoLoop(outputs, index + 1)
         IN  IF columns = None
             THEN [raised |-> "ValueError", printed |-> <<head>>]
             ELSE [raised |-> rest.raised,
                   printed |-> <<head, columns[1]>> \o rest.printed]

\* beamer_info on the parsed query
InfoFrom(scan, loop) ==
    IF scan.raised # "" THEN QueryRaised(scan)
    ELSE [raised |-> loop.raised, cmd |-> None, printed |-> loop.printed,
          ran |-> <<QueryArgs>>, batch |-> Some(scan.outputs)]

InfoOf(scan) == InfoFrom(scan, InfoLoop(Connected(scan.outputs), 1))

beamer_info(text) == InfoOf(scan_xrandr_outputs(text))

\* ------------------------------------------------------------------------
\* Inputs: the text the query returns and the command line
\* ------------------------------------------------------------------------
\* most connectors the display tool reports
MaxOutputs == 3

\* most selectors after `row`
MaxRow == 3

\* most lines after the summary line of a free-form query text
MaxLines == 4

ConnectorNames == <<"eDP1", "HDMI2", "DP1", "VGA1", "DP2", "DP3">>

SummaryLine == "Screen 0: minimum 8 x 8, current 10 x 2, maximum 32767 x 32767"

\* the lines the tool reports for one connector, in the format of the
\* recorded query results
ConnectorKinds == {"off", "bare", "wide", "tall", "small"}

ConnectorLines(name, kind) ==
    CASE kind = "off"   -> <<name \o " disconnected (normal left inverted)">>
      [] kind = "bare"  -> <<name \o " connected (normal left inverted)">>
      [] kind = "wide"  -> <<name \o " connected primary 10x2+0+0 (normal left inverted) 309mm x 173mm",
                             "   10x2     60.01*+  59.93",
                             "   8x6      59.95">>
      [] kind = "tall"  -> <<name \o " connected (normal left inverted)",
                             "   8x6      60.00 +",
                             "   8x7      59.88",
                             "   8x7i     50.00">>
      [] kind = "small" -> <<name \o " connected 6x4+10-0 (normal left inverted) 3mm x 2mm",
                             "   6x4      60.32*">>

\* the query text: the summary line, then the given lines, each ended by
\* a newline
QueryText(lines) == Join(<<SummaryLine>> \o lines, "\n") \o "\n"

TextsOf(kindSet) ==
    {QueryText(Chain([i \in DOMAIN kinds |-> ConnectorLines(ConnectorNames[i], kinds[i])])) :
        kinds \in UNION {[1..k -> kindSet] : k \in 0..MaxOutputs}}

\* query texts for the commands that read the modes
ToolTexts == TextsOf(ConnectorKinds)

\* query texts for `row`, which reads only names and connection status
RowTexts == TextsOf({"off", "bare"})

\* free-form query texts for the parser alone
LinePool ==
    {"eDP1 connected primary 10x2+0+0 (normal) 3mm x 2mm",
     "DP1 disconnected (normal)",
     "   10x2     60.01*+  59.93",
     "   8x6      59.95 +",
     "   8x7i     50.00",
     "HDMI2 connected",
     ""}

ScanTexts ==
    {""} \cup {Join(<<SummaryLine>> \o lines, "\n") :
                  lines \in UNION {[1..k -> LinePool] : k \in 0..MaxLines}}

Selectors == {"1!", "2", "DP1!", "0", "-1"}

Rows == UNION {[1..k -> Selectors] : k \in 0..MaxRow}

Sides == {"left", "right", "above", "below"}

Argvs ==
    {<<>>, <<"info">>, <<"off">>, <<"only">>, <<"clone">>, <<"mirror">>,
     <<"off", "1">>, <<"row">>, <<"row", "2", "1!">>}
    \cup {<<side>> : side \in Sides}

RowArgvs == {<<"row">> \o row : row \in Rows}

\* __doc__.strip()
Doc ==
    "Simple tool for toggling and positioning a second monitor (or projector) on Linux.\n\nUsage:\n    beamer [COMMAND]\n\nCOMMANDs:\n    info   Print details and exit (default)\n    clone  Mirror the first monitor to the second\n    left | right | above | below\n           Display the second monitor beside the first\n    off    Only activate the first monitor\n    only   Only activate the second monitor\n    row [output...]\n           Specify a custom row (mostly for more than two monitors)"

\* ------------------------------------------------------------------------
\* State
\* ------------------------------------------------------------------------
VARIABLES
    argv,      \* sys.argv[1:]
    tool,      \* the text `xrandr --query` returns in this run
    pc,        \* "main" | "dispatched" | "exit"; "scan" | "scanned" for the parser alone
    cmd,       \* main's cmd: None or Some(argument tuple)
    printed,   \* messages printed so far
    ran,       \* run_cmd invocations so far (argument tuples)
    status,    \* None while running, else Some(process exit status)
    raised,    \* the exception that ended the run ("" for none)
    batch      \* None, or Some(parsed batch) of this run

vars == <<argv, tool, pc, cmd, printed, ran, status, raised, batch>>

Init ==
    /\ \/ argv \in Argvs /\ tool \in ToolTexts
       \/ argv \in RowArgvs /\ tool \in RowTexts
    /\ pc = "main"
    /\ cmd = None
    /\ printed = <<>>
    /\ ran = <<>>
    /\ status = None
    /\ raised = ""
    /\ batch = None

\* the synthesizer returned or raised inside main; an exception that leaves
\* main ends the process with a traceback and exit status 1
Dispatch(r) ==
    /\ pc = "main"
    /\ cmd' = r.cmd
    /\ printed' = r.printed
    /\ ran' = r.ran
    /\ batch' = r.batch
    /\ raised' = r.raised
    /\ pc' = IF r.raised # "" THEN "exit" ELSE "dispatched"
    /\ status' = IF r.raised # "" THEN Some(1) ELSE None
    /\ UNCHANGED <<argv, tool>>

\* case ["info"] | []: return beamer_info()
Return(r) ==
    /\ pc = "main"
    /\ cmd' = None
    /\ printed' = r.printed
    /\ ran' = r.ran
    /\ batch' = r.batch
    /\ raised' = r.raised
    /\ pc' = "exit"
    /\ status' = IF r.raised # "" THEN Some(1) ELSE Some(0)
    /\ UNCHANGED <<argv, tool>>

MainInfo ==
    /\ argv \in {<<>>, <<"info">>}
    /\ Return(beamer_info(tool))

MainOff ==
    /\ argv = <<"off">>
    /\ Dispatch(beamer_single_output_args(0, tool))

MainOnly ==
    /\ argv = <<"only">>
    /\ Dispatch(beamer_single_output_args(1, tool))

MainClone ==
    /\ argv = <<"clone">>
    /\ Dispatch(beamer_clone_args(tool))

MainSide ==
    /\ Len(argv) = 1
    /\ argv[1] \in Sides
    /\ Dispatch(beamer_side_args(argv[1], tool))

MainRow ==
    /\ Len(argv) >= 1
    /\ argv[1] = "row"
    /\ Dispatch(beamer_row_args(Tail(argv), tool))

\* case _: error(__doc__.strip())
MainUsage ==
    /\ argv \notin {<<>>, <<"info">>, <<"off">>, <<"only">>, <<"clone">>}
    /\ ~(Len(argv) = 1 /\ argv[1] \in Sides)
    /\ ~(Len(argv) >= 1 /\ argv[1] = "row")
    /\ Dispatch([raised |-> "", cmd |-> None, printed |-> <<Doc>>,
                 ran |-> <<>>, batch |-> None])

\* mutant: a bare return, which ends the process with status 0
MainReturnNone ==
    /\ pc = "dispatched"
    /\ cmd = None
    /\ pc' = "exit"
    /\ status' = Some(0)
    /\ UNCHANGED <<argv, tool, cmd, printed, ran, raised, batch>>

\* if cmd is None: return 1
MainReturn1 ==
    /\ pc = "dispatched"
    /\ cmd = None
    /\ pc' = "exit"
    /\ status' = Some(1)
    /\ UNCHANGED <<argv, tool, cmd, printed, ran, raised, batch>>

\* print(run_cmd(cmd)); main returns None
MainRunCmd ==
    /\ pc = "dispatched"
    /\ cmd # None
    /\ ran' = Append(ran, cmd[1])
    /\ printed' = Append(printed, Join(cmd[1], " "))
    /\ pc' = "exit"
    /\ status' = Some(0)
    /\ UNCHANGED <<argv, tool, cmd, raised, batch>>

Next ==
    \/ MainInfo
    \/ MainOff
    \/ MainOnly
    \/ MainClone
    \/ MainSide
    \/ MainRow
    \/ MainUsage
    \/ MainReturn1
    \/ MainRunCmd

Spec == Init /\ [][Next]_vars

\* ------------------------------------------------------------------------
\* The parser alone: scan_xrandr_outputs called on a free-form query text
\* ------------------------------------------------------------------------
ScanInit ==
    /\ argv = <<>>
    /\ tool \in ScanTexts
    /\ pc = "scan"
    /\ cmd = None
    /\ printed = <<>>
    /\ ran = <<>>
    /\ status = None
    /\ raised = ""
    /\ batch = None

\* tuple(scan_xrandr_outputs()): the generator is consumed to its end, or
\* its first next() raises
Scanned(scan) ==
    /\ pc = "scan"
    /\ batch' = IF scan.raised = "" THEN Some(scan.outputs) ELSE None
    /\ raised' = scan.raised
    /\ ran' = <<QueryArgs>>
    /\ pc' = "scanned"
    /\ UNCHANGED <<argv, tool, cmd, printed, status>>

Scan == Scanned(scan_xrandr_outputs(tool))

ScanNext == Scan

ScanSpec == ScanInit /\ [][ScanNext]_vars

\* ------------------------------------------------------------------------
\* Properties
\* ------------------------------------------------------------------------
\* the synthesizer of this run has returned or raised
Synthesized == pc \in {"dispatched", "exit"}

\* the connected outputs of the parsed batch, in tool order, and their names
BatchConnected == SelectSeq(batch[1], LAMBDA o : o.connected = TRUE)

Names == [k \in DOMAIN BatchConnected |-> BatchConnected[k].name]

N == Len(Names)

\* the reconfiguration invocations: every run_cmd call but the query
Reconfigs == SelectSeq(ran, LAMBDA args : args # QueryArgs)

\* ("--output", names[k], flag) for every k, in order
OffClauses(names) ==
    [j \in 1..(3 * Len(names)) |->
        CASE j % 3 = 1 -> "--output"
          [] j % 3 = 2 -> names[(j + 1) \div 3]
          [] j % 3 = 0 -> "--off"]

\* names without the one at position i
Without(names, i) ==
    [k \in 1..(Len(names) - 1) |-> names[IF k < i THEN k ELSE k + 1]]

SingleIndex == IF argv = <<"only">> THEN 1 ELSE 0

SingleRun == Synthesized /\ argv \in {<<"off">>, <<"only">>} /\ batch # None

\* C1: Single-output(index) with index < n keeps the connected output at
\* ordinal index `index` active (--auto) and turns every other connected
\* output off, in tool order (`off` is index 0, `only` is index 1).
C1_SingleOutputKeepsIndexed ==
    (SingleRun /\ SingleIndex < N)
        => cmd = Some(<<"xrandr", "--output", Names[SingleIndex + 1], "--auto">>
                      \o OffClauses(Without(Names, SingleIndex + 1)))

\* C2: Single-output(index) with index >= n returns no argument list and
\* reports the requested index.
C2_SingleOutputIndexNotConnected ==
    (SingleRun /\ SingleIndex >= N)
        => /\ raised = ""
           /\ cmd = None
           /\ printed = <<"No output with index " \o IntToStr(SingleIndex)
                          \o " connected">>

\* the (width, height) pairs among the modes of an output
ResolutionsOf(o) == {<<o.modes[i].width, o.modes[i].height>> : i \in DOMAIN o.modes}

\* the pairs every connected output has
Common ==
    {r \in UNION {ResolutionsOf(BatchConnected[k]) : k \in DOMAIN BatchConnected} :
        \A k \in DOMAIN BatchConnected : r \in ResolutionsOf(BatchConnected[k])}

\* the largest common pair, width first, then height
Best ==
    CHOOSE r \in Common :
        \A q \in Common : q[1] < r[1] \/ (q[1] = r[1] /\ q[2] <= r[2])

BestMode == IntToStr(Best[1]) \o "x" \o IntToStr(Best[2])

CloneRun == Synthesized /\ argv = <<"clone">> /\ batch # None

\* ("--output", names[k], "--mode", mode, "--same-as", names[1]) for k >= 2
SameAsClauses(names, mode) ==
    [j \in 1..(6 * (Len(names) - 1)) |->
        CASE j % 6 = 1 -> "--output"
          [] j % 6 = 2 -> names[(j + 4) \div 6 + 1]
          [] j % 6 = 3 -> "--mode"
          [] j % 6 = 4 -> mode
          [] j % 6 = 5 -> "--same-as"
          [] j % 6 = 0 -> names[1]]

\* C3: Clone with n >= 1 connected outputs that share a (width, height)
\* pair sets the first output to the lexicographically largest shared pair
\* and every further output to the same mode, --same-as the first.
C3_CloneArgs ==
    (CloneRun /\ N >= 1 /\ Common # {})
        => /\ raised = ""
           /\ cmd = Some(<<"xrandr", "--output", Names[1], "--mode", BestMode>>
                         \o SameAsClauses(Names, BestMode))

\* two connected outputs sharing two pairs were cloned
C3_Witness ==
    /\ CloneRun
    /\ N = 2
    /\ Cardinality(Common) = 2
    /\ cmd # None
    /\ Len(cmd[1]) = 11

\* C4: Clone returns no argument list, prints the no-common-resolution
\* diagnostic and raises nothing whenever the connected outputs share no
\* pair, the case of zero connected outputs included.
C4_CloneNoCommonResolution ==
    (CloneRun /\ (N = 0 \/ Common = {}))
        => /\ raised = ""
           /\ cmd = None
           /\ printed # <<>>
           /\ printed[Len(printed)] = "no matching resolution found"

SideRun == Synthesized /\ Len(argv) = 1 /\ argv[1] \in Sides /\ batch # None

SideFlag(side) ==
    CASE side = "left"  -> "--left-of"
      [] side = "right" -> "--right-of"
      [] side = "above" -> "--above"
      [] side = "below" -> "--below"

\* C5: Side-by-side returns an argument list exactly when two outputs are
\* connected: both --auto, the second placed by the direction's flag
\* relative to the first; with any other count it returns none and reports
\* the count.
C5_SideArgs ==
    SideRun
        => /\ raised = ""
           /\ cmd # None <=> N = 2
           /\ N = 2 => cmd = Some(<<"xrandr", "--output", Names[1], "--auto",
                                    "--output", Names[2], "--auto",
                                    SideFlag(argv[1]), Names[1]>>)
           /\ N # 2 => printed = <<"Which outputs should I use? Found "
                                   \o IntToStr(N)>>

\* `left` was synthesized for exactly two connected outputs
C5_Witness ==
    /\ SideRun
    /\ argv = <<"left">>
    /\ N = 2
    /\ cmd # None

\* the selectors of a row command, and their parts
Row == Tail(argv)

Marked(sel) == Len(sel) > 0 /\ SubSeq(sel, Len(sel), Len(sel)) = "!"

Token(sel) == IF Marked(sel) THEN SubSeq(sel, 1, Len(sel) - 1) ELSE sel

\* a token resolves: an integer k with 1 <= k <= n, or the name of a
\* connected output
Resolves(tok) ==
    IF IntParses(tok) THEN ParseInt(tok) \in 1..N
    ELSE \E k \in DOMAIN Names : Names[k] = tok

Resolved(tok) == IF IntParses(tok) THEN Names[ParseInt(tok)] ELSE tok

RowRun == Synthesized /\ Len(argv) >= 2 /\ argv[1] = "row" /\ batch # None

\* the clauses of the row outputs k..m
RECURSIVE RightOfClauses(_)
RightOfClauses(k) ==
    IF k > Len(Row) THEN <<>>
    ELSE <<"--output", Resolved(Token(Row[k])), "--auto",
           "--right-of", Resolved(Token(Row[k - 1]))>>
         \o (IF Marked(Row[k]) THEN <<"--primary">> ELSE <<>>)
         \o RightOfClauses(k + 1)

\* the connected names no selector resolves to, in tool order
RECURSIVE Unmentioned(_)
Unmentioned(k) ==
    IF k > N THEN <<>>
    ELSE (IF \E j \in DOMAIN Row : Resolved(Token(Row[j])) = Names[k]
          THEN <<>> ELSE <<Names[k]>>)
         \o Unmentioned(k + 1)

\* C6: Row with selectors that all resolve returns the anchor --auto, then
\* each further output --auto --right-of its left neighbour with --primary
\* exactly when its selector is marked, then --off for every connected
\* output no selector names; duplicates are kept.
C6_RowArgs ==
    (RowRun /\ \A k \in DOMAIN Row : Resolves(Token(Row[k])))
        => /\ raised = ""
           /\ cmd = Some(<<"xrandr", "--output", Resolved(Token(Row[1])), "--auto">>
                         \o RightOfClauses(2)
                         \o OffClauses(Unmentioned(1)))

\* a row of three selectors: a marked anchor, a marked and an unmarked
\* neighbour, and a connected output left over
C6_Witness ==
    /\ RowRun
    /\ Row = <<"1!", "2", "1!">>
    /\ N = 3
    /\ cmd # None

\* C7: Row with a selector that does not resolve (an integer outside 1..n,
\* zero and negative numbers included, or a name that is no connected
\* output) returns no argument list and prints one diagnostic.
C7_RowOutputNotFound ==
    (RowRun /\ \E k \in DOMAIN Row : ~Resolves(Token(Row[k])))
        => /\ raised = ""
           /\ cmd = None
           /\ Len(printed) = 1

\* the lines of the query text after the summary line
Lines == Tail(SplitLines(tool))

\* which pattern a line matches, the header pattern first
LineKind(line) ==
    IF OutputRegexMatch(line) # None THEN "header"
    ELSE IF ModeRegexMatch(line) # None THEN "mode"
    ELSE "other"

HeaderIdx == {i \in DOMAIN Lines : LineKind(Lines[i]) = "header"}

\* the elements of a set of numbers in increasing order
RECURSIVE Ascending(_)
Ascending(S) ==
    IF S = {} THEN <<>>
    ELSE LET least == CHOOSE i \in S : \A j \in S : i <= j
         IN  <<least>> \o Ascending(S \ {least})

\* the Modes of the given mode lines
ModesOf(lines, idx) == [k \in DOMAIN idx |-> Mode(sscanfMode(lines[idx[k]])[1])]

\* the Output of header line h with the mode lines after it and before the
\* next header line
OutputOf(lines, kinds, h) ==
    Output(sscanfOutput(lines[h])[1],
           ModesOf(lines,
                   Ascending({i \in DOMAIN lines :
                                 /\ i > h
                                 /\ kinds[i] = "mode"
                                 /\ \A g \in (h + 1)..i : kinds[g] # "header"})))

\* one Output per header line, in order
OutputsOf(lines, kinds, headers) ==
    [k \in DOMAIN headers |-> OutputOf(lines, kinds, headers[k])]

ExpectedBatch(lines, kinds) ==
    OutputsOf(lines, kinds, Ascending({i \in DOMAIN lines : kinds[i] = "header"}))

\* C8: for a query text with at least one header line the parser yields one
\* Output per header line, in order, each with exactly the mode lines
\* between its header and the next one, in order.
C8_OneOutputPerHeader ==
    (pc = "scanned" /\ HeaderIdx # {})
        => /\ raised = ""
           /\ batch = Some(ExpectedBatch(Lines, [i \in DOMAIN Lines |-> LineKind(Lines[i])]))

\* two outputs were yielded, the first with a mode, from a text whose
\* first line after the summary is no header
C8_Witness ==
    /\ pc = "scanned"
    /\ batch # None
    /\ Len(batch[1]) = 2
    /\ batch[1][1].modes # <<>>
    /\ 1 \notin HeaderIdx

\* C9: parsing a query text without a header line fails with the designated
\* parse error.
C9_ParseError ==
    (pc = "scanned" /\ HeaderIdx = {})
        => /\ batch = None
           /\ raised = "ParseError"

\* a run with a layout command (anything but `info` or no argument)
LayoutRun == argv \notin {<<>>, <<"info">>}

\* C10: in a run with a layout command the reconfiguration command is
\* invoked at most once, only after synthesis and only with the argument
\* list synthesis returned; when synthesis returns none, nothing is invoked
\* and the run ends with status 1.
C10_ReconfigureOnlySynthesized ==
    LayoutRun
        => /\ Len(Reconfigs) <= 1
           /\ Reconfigs # <<>> => /\ pc = "exit"
                                  /\ cmd # None
                                  /\ Reconfigs = <<cmd[1]>>
                                  /\ ran[Len(ran)] = cmd[1]
           /\ (pc = "exit" /\ cmd = None) => /\ Reconfigs = <<>>
                                             /\ status = Some(1)

\* a run ended after its one reconfiguration, made with the synthesized
\* argument list after the query
C10_Witness ==
    /\ LayoutRun
    /\ pc = "exit"
    /\ cmd # None
    /\ ran = <<QueryArgs, cmd[1]>>
    /\ status = Some(0)

====
